---- MODULE Spec2Model ----
(***************************************************************************)
(* LiteGPT Web: the chat controller (hooks/useChat), the session store     *)
(* (utils/chatSession) and the generation module (ai/generate).            *)
(*                                                                         *)
(* Strings are sequences of one-character strings, so that slice, trim and *)
(* concatenation are computed as the code computes them.  The warning sign *)
(* that opens the fixed texts is written "!".                              *)
(*                                                                         *)
(* React is modelled as it schedules the code: a handler runs to its first *)
(* await with the state of the last render, its setState calls are put on  *)
(* the update queue, and Render applies the queue and runs the save effect *)
(* before any other handler or continuation runs.                          *)
(***************************************************************************)
EXTENDS Integers, Sequences, FiniteSets, TLC

VARIABLES
    sessions,         \* useState<ChatSession[]>  (as of the last render)
    activeSessionId,  \* useState<string | null>
    isTyping,         \* useState(false)
    queue,            \* React's queue of updates not yet rendered
    stored,           \* sessionStorage item 'chat_sessions'
    isGenerating,     \* module variable of ai/generate
    puterLoaded,      \* typeof puter !== 'undefined'
    sends,            \* the handleSend calls suspended at their await
    nextId,           \* source of fresh ids (crypto.randomUUID, Date.now)
    nextSend,         \* number of the next handleSend call
    ops,              \* number of handler calls left to make
    mounted,          \* "no" before the mount effects, then "yes" or "error"
    titled,           \* ids of the sessions whose title a send changed, in order
    file,             \* the text of the file downloadFile wrote last
    imported,         \* what parseMarkdownToSession returned last, and for which text
    route,            \* the path BrowserRouter shows
    username,         \* LoginForm: useState('')
    password,         \* LoginForm: useState('')
    isLoading,        \* Login: useState(false), the timer of handleLoginSuccess runs
    loggedIn,         \* a submit with the right credentials has happened
    lastActive,       \* the session that was active when the page was last reloaded
    formError         \* LoginForm: errors.form

\* the state of the router and of the login page, and the history of both
page == <<route, username, password, isLoading, loggedIn, lastActive, formError>>

vars == <<sessions, activeSessionId, isTyping, queue, stored, isGenerating,
          puterLoaded, sends, nextId, nextSend, ops, mounted, titled, file,
          imported, route, username, password, isLoading, loggedIn, lastActive,
          formError>>

----------------------------------------------------------------------------
(* Program constants *)

MAX_MESSAGES == 50

MAX_CHATS == 10

HISTORY_WINDOW == 10

TITLE_MAX == 30

(* Bounds of the model *)

\* the handler calls a behaviour makes
MaxOps == 3

\* the handler calls a behaviour on one session's title makes
MaxTitleOps == 4

----------------------------------------------------------------------------
(* Fixed texts *)

NEW_CHAT ==
    <<"N","e","w"," ","C","h","a","t">>

IMAGE_ANALYSIS ==
    <<"I","m","a","g","e"," ","A","n","a","l","y","s","i","s">>

ELLIPSIS ==
    <<".",".",".">>

PLEASE_WAIT ==
    <<"!"," ","P","l","e","a","s","e"," ","w","a","i","t"," ","f","o","r"," ","t","h","e"," ","c","u","r","r","e","n","t"," ","r","e","s","p","o","n","s","e"," ","t","o"," ","f","i","n","i","s","h",".">>

SEND_ERROR ==
    <<"!"," ","S","o","r","r","y",","," ","I"," ","c","o","u","l","d","n","'","t"," ","g","e","n","e","r","a","t","e"," ","a"," ","r","e","s","p","o","n","s","e",".">>

AI_ERROR_PREFIX ==
    <<"!"," ","A","I"," ","E","r","r","o","r",":"," ">>

PUTER_NOT_LOADED ==
    <<"P","u","t","e","r",".","j","s"," ","n","o","t"," ","l","o","a","d","e","d","."," ","P","l","e","a","s","e"," ","r","e","f","r","e","s","h"," ","t","h","e"," ","p","a","g","e",".">>

INVALID_RESPONSE ==
    <<"E","r","r","o","r",":"," ","I","n","v","a","l","i","d"," ","r","e","s","p","o","n","s","e">>

NoImage == "undefined"

\* the null of useState<string | null>(null)
NoId == 0

\* sessionStorage.getItem: null, a text JSON.parse rejects, or a serialized list
NoItem == [json |-> "null", value |-> <<>>]

Corrupt == [json |-> "unparseable", value |-> <<>>]

\* the text 'null', which JSON.parse accepts and turns into null
JsonNull == [json |-> "literal", value |-> <<>>]

Item(list) == [json |-> "list", value |-> list]

----------------------------------------------------------------------------
(* JavaScript array and string primitives *)

Min(a, b) == IF a < b THEN a ELSE b

Max(a, b) == IF a > b THEN a ELSE b

\* s.slice(from, to) for 0 <= from
Slice(s, from, to) == SubSeq(s, from + 1, Min(to, Len(s)))

\* s.slice(from) for any integer from: a negative from counts from the end
SliceFrom(s, from) ==
    IF from < 0 THEN SubSeq(s, Max(Len(s) + from, 0) + 1, Len(s))
    ELSE SubSeq(s, from + 1, Len(s))

IsSpace(c) == c \in {" ", "\n", "\t"}

RECURSIVE TrimStart(_)
TrimStart(s) ==
    IF s # <<>> /\ IsSpace(Head(s)) THEN TrimStart(Tail(s)) ELSE s

RECURSIVE TrimEnd(_)
TrimEnd(s) ==
    IF s # <<>> /\ IsSpace(s[Len(s)]) THEN TrimEnd(SubSeq(s, 1, Len(s) - 1)) ELSE s

\* String.prototype.trim
Trim(s) == TrimEnd(TrimStart(s))

\* Array.prototype.map over a sequence
Map(s, F(_)) == [i \in 1..Len(s) |-> F(s[i])]

----------------------------------------------------------------------------
(* utils/chatSession *)

\* createSession(): a fresh id, the default title, no messages
createSession(fresh) ==
    [id |-> fresh, title |-> NEW_CHAT, messages |-> <<>>, createdAt |-> fresh]

\* loadSessions(): [] when the item is absent or JSON.parse throws, otherwise
\* whatever JSON.parse returns: the list, or null for the text 'null'
loadSessions(item) ==
    [isNull |-> item.json = "literal",
     list |-> IF item.json = "list" THEN item.value ELSE <<>>]

\* saveSessions(): the item is replaced by the serialized list
saveSessions(list) == Item(list)

----------------------------------------------------------------------------
(* utils/chatImportExport *)

H1_MARK == <<"#"," ">>

USER_MARK == <<"*","*","U","s","e","r","*","*",":">>

AI_MARK == <<"*","*","A","I","*","*",":">>

IMPORTED_CHAT ==
    <<"I","m","p","o","r","t","e","d"," ","C","h","a","t">>

\* String.prototype.startsWith
StartsWith(s, prefix) ==
    Len(s) >= Len(prefix) /\ SubSeq(s, 1, Len(prefix)) = prefix

\* String.prototype.substring(from)
Substring(s, from) == SubSeq(s, from + 1, Len(s))

\* markdown.split('\n')
RECURSIVE Split(_)
Split(s) ==
    IF \A i \in 1..Len(s) : s[i] # "\n" THEN <<s>>
    ELSE LET at == CHOOSE i \in 1..Len(s) :
                      s[i] = "\n" /\ \A j \in 1..(i - 1) : s[j] # "\n"
         IN  <<SubSeq(s, 1, at - 1)>> \o Split(SubSeq(s, at + 1, Len(s)))

\* md += `**${role}**: ${msg.content}\n\n` for each message
RECURSIVE ExportMessages(_)
ExportMessages(messages) ==
    IF messages = <<>> THEN <<>>
    ELSE (IF Head(messages).role = "user" THEN USER_MARK ELSE AI_MARK)
         \o <<" ">> \o Head(messages).content \o <<"\n","\n">>
         \o ExportMessages(Tail(messages))

\* (mutant) the title line is left out
exportSessionToMarkdown_NoTitle(session) == ExportMessages(session.messages)

\* let md = `# ${session.title}\n\n`, then the messages
exportSessionToMarkdown(session) ==
    H1_MARK \o session.title \o <<"\n","\n">> \o ExportMessages(session.messages)

\* the title after the loop over the lines: each line that starts with "# "
\* assigns it
RECURSIVE ParseTitle(_, _)
ParseTitle(lines, title) ==
    IF lines = <<>> THEN title
    ELSE ParseTitle(Tail(lines),
                    IF StartsWith(Head(lines), H1_MARK)
                    THEN Trim(Substring(Head(lines), 2))
                    ELSE title)

\* the messages after the loop over the lines
RECURSIVE ParseMessages(_)
ParseMessages(lines) ==
    IF lines = <<>> THEN <<>>
    ELSE (IF StartsWith(Head(lines), USER_MARK)
          THEN <<[role |-> "user", content |-> Trim(Substring(Head(lines), 9))]>>
          ELSE <<>>)
         \o (IF StartsWith(Head(lines), AI_MARK)
             THEN <<[role |-> "ai", content |-> Trim(Substring(Head(lines), 7))]>>
             ELSE <<>>)
         \o ParseMessages(Tail(lines))

\* the null parseMarkdownToSession returns
NoSession == [ok |-> FALSE, id |-> NoId, title |-> <<>>, messages |-> <<>>]

\* (mutant) a text without messages is accepted too
parseMarkdownToSession_Lenient(markdown, fresh) ==
    [ok |-> TRUE, id |-> fresh,
     title |-> ParseTitle(Split(markdown), IMPORTED_CHAT),
     messages |-> ParseMessages(Split(markdown))]

parseMarkdownToSession(markdown, fresh) ==
    LET lines == Split(markdown)
        messages == ParseMessages(lines)
    IN  IF Len(messages) = 0 THEN NoSession
        ELSE [ok |-> TRUE, id |-> fresh,
              title |-> ParseTitle(lines, IMPORTED_CHAT), messages |-> messages]

\* no text was parsed yet
NoImport == [text |-> <<>>, result |-> NoSession]

----------------------------------------------------------------------------
(* hooks/useChat: the state updates handleSend and the other handlers queue *)

SessionOps == {"create", "clear", "replace", "rename", "appendUser", "appendAi", "appendError"}

\* a queued setSessions, setActiveSessionId or setIsTyping call: the session
\* id its updater closes over, and the session, list, title, message or flag
\* it sets
NoUpdate ==
    [op |-> "none", id |-> NoId, session |-> <<>>, list |-> <<>>, title |-> <<>>,
     msg |-> <<>>, on |-> FALSE]

CreateUpdate(newSession) ==
    [NoUpdate EXCEPT !.op = "create", !.id = newSession.id, !.session = <<newSession>>]

ClearUpdate(id) == [NoUpdate EXCEPT !.op = "clear", !.id = id]

ReplaceUpdate(list) == [NoUpdate EXCEPT !.op = "replace", !.list = list]

RenameUpdate(id, newTitle) ==
    [NoUpdate EXCEPT !.op = "rename", !.id = id, !.title = newTitle]

MessageUpdate(op, id, msg) == [NoUpdate EXCEPT !.op = op, !.id = id, !.msg = <<msg>>]

ActiveUpdate(id) == [NoUpdate EXCEPT !.op = "setActive", !.id = id]

TypingUpdate(on) == [NoUpdate EXCEPT !.op = "setTyping", !.on = on]

\* (mutant) the list is never cut
TrimMessages_KeepAll(updated) == updated

\* updatedMessages.slice(updatedMessages.length - MAX_MESSAGES) when over the cap
TrimMessages(updated) ==
    IF Len(updated) > MAX_MESSAGES
    THEN SliceFrom(updated, Len(updated) - MAX_MESSAGES)
    ELSE updated

\* (mutant) no ellipsis
NewTitle_NoEllipsis(s, text) ==
    IF Len(s.messages) = 0 /\ s.title = NEW_CHAT
    THEN Slice(IF text # <<>> THEN text ELSE IMAGE_ANALYSIS, 0, TITLE_MAX)
    ELSE s.title

\* the title handleSend gives a session on its user message
NewTitle(s, text) ==
    IF Len(s.messages) = 0 /\ s.title = NEW_CHAT
    THEN Slice(IF text # <<>> THEN text ELSE IMAGE_ANALYSIS, 0, TITLE_MAX)
         \o (IF text # <<>> /\ Len(text) > TITLE_MAX THEN ELLIPSIS ELSE <<>>)
    ELSE s.title

\* (mutant) the user message is not added
AddUserMessage_Dropped(prev, id, msg) == prev

\* setSessions(prev => prev.map(...)) of the user message
AddUserMessage(prev, id, msg) ==
    LET F(s) == IF s.id = id
                THEN [s EXCEPT !.messages = TrimMessages(Append(s.messages, msg)),
                               !.title = NewTitle(s, msg.content)]
                ELSE s
    IN  Map(prev, F)

\* (mutant) a reply without its session goes to the first session
AddAiMessage_OrFirst(prev, id, msg) ==
    LET to == IF \E i \in 1..Len(prev) : prev[i].id = id THEN id ELSE prev[1].id
        F(s) == IF s.id = to
                THEN [s EXCEPT !.messages = TrimMessages(Append(s.messages, msg))]
                ELSE s
    IN  Map(prev, F)

\* setSessions(prev => prev.map(...)) of the reply
AddAiMessage(prev, id, msg) ==
    LET F(s) == IF s.id = id
                THEN [s EXCEPT !.messages = TrimMessages(Append(s.messages, msg))]
                ELSE s
    IN  Map(prev, F)

\* setSessions(prev => prev.map(...)) of the catch block
AddErrorMessage(prev, id, msg) ==
    LET F(s) == IF s.id = id
                THEN [s EXCEPT !.messages = Append(s.messages, msg)]
                ELSE s
    IN  Map(prev, F)

\* (mutant) the new session is put last
AddSession_AtEnd(prev, newSession) == Slice(prev \o <<newSession>>, 0, MAX_CHATS)

\* (mutant) at the cap the session behind the new one is dropped
AddSession_SecondDropped(prev, newSession) ==
    IF Len(prev) >= MAX_CHATS THEN <<newSession>> \o Tail(prev)
    ELSE <<newSession>> \o prev

\* setSessions(prev => [newSession, ...prev].slice(0, 10))
AddSession(prev, newSession) == Slice(<<newSession>> \o prev, 0, MAX_CHATS)

\* (mutant) the title is reset with the messages
ClearMessages_TitleReset(prev, id) ==
    LET F(s) == IF s.id = id THEN [s EXCEPT !.messages = <<>>, !.title = NEW_CHAT] ELSE s
    IN  Map(prev, F)

\* setSessions(prev => prev.map(s => s.id === activeSessionId ? {...s, messages: []} : s))
ClearMessages(prev, id) ==
    LET F(s) == IF s.id = id THEN [s EXCEPT !.messages = <<>>] ELSE s
    IN  Map(prev, F)

\* setSessions(prev => prev.map(s => s.id === id ? {...s, title: newTitle} : s))
SetTitle(prev, id, newTitle) ==
    LET F(s) == IF s.id = id THEN [s EXCEPT !.title = newTitle] ELSE s
    IN  Map(prev, F)

\* one queued update applied to the state of the hook
ApplyUpdate(st, u) ==
    CASE u.op = "create"      -> [st EXCEPT !.sessions = AddSession(@, u.session[1])]
      [] u.op = "clear"       -> [st EXCEPT !.sessions = ClearMessages(@, u.id)]
      [] u.op = "replace"     -> [st EXCEPT !.sessions = u.list]
      [] u.op = "rename"      -> [st EXCEPT !.sessions = SetTitle(@, u.id, u.title)]
      [] u.op = "appendUser"  -> [st EXCEPT !.sessions = AddUserMessage(@, u.id, u.msg[1])]
      [] u.op = "appendAi"    -> [st EXCEPT !.sessions = AddAiMessage(@, u.id, u.msg[1])]
      [] u.op = "appendError" -> [st EXCEPT !.sessions = AddErrorMessage(@, u.id, u.msg[1])]
      [] u.op = "setActive"   -> [st EXCEPT !.activeSessionId = u.id]
      [] u.op = "setTyping"   -> [st EXCEPT !.isTyping = u.on]

RECURSIVE ApplyAll(_, _)
ApplyAll(st, q) ==
    IF q = <<>> THEN st ELSE ApplyAll(ApplyUpdate(st, Head(q)), Tail(q))

\* the state the next render shows
Rendered ==
    ApplyAll([sessions |-> sessions, activeSessionId |-> activeSessionId,
              isTyping |-> isTyping], queue)

\* (mutant) the effect does not write
SaveEffect_Skipped(item, list, changed) == item

\* (mutant) the effect writes an empty list too
SaveEffect_Unguarded(item, list, changed) ==
    IF changed THEN saveSessions(list) ELSE item

\* useEffect(() => { if (sessions.length > 0) saveSessions(sessions) }, [sessions])
SaveEffect(item, list, changed) ==
    IF changed /\ Len(list) > 0 THEN saveSessions(list) ELSE item

\* the render that is due applies a send's user message and that message
\* changes the title of its session
SendRetitles ==
    /\ queue # <<>>
    /\ queue[1].op = "appendUser"
    /\ \E i \in 1..Len(sessions) :
          /\ sessions[i].id = queue[1].id
          /\ Rendered.sessions[i].title # sessions[i].title

\* the render React schedules after a handler, with the save effect
Render ==
    /\ queue # <<>>
    /\ sessions' = Rendered.sessions
    /\ activeSessionId' = Rendered.activeSessionId
    /\ isTyping' = Rendered.isTyping
    /\ stored' = SaveEffect(stored, Rendered.sessions,
                            \E i \in 1..Len(queue) : queue[i].op \in SessionOps)
    /\ queue' = <<>>
    /\ titled' = IF SendRetitles THEN Append(titled, queue[1].id) ELSE titled
    /\ UNCHANGED <<isGenerating, puterLoaded, sends, nextId, nextSend, ops>>
    /\ UNCHANGED <<mounted, file, imported>>
    /\ UNCHANGED page

----------------------------------------------------------------------------
(* ai/generate *)

\* the text of a provider response, by its shape
ResponseText(response) ==
    CASE response.shape = "string"  -> response.text
      [] response.shape = "message" -> response.text
      [] response.shape = "other"   -> INVALID_RESPONSE

\* return `AI Error: ${errorMessage}` of the catch block
AiErrorText(errorMessage) == AI_ERROR_PREFIX \o errorMessage

\* (mutant) no guard
GenerateEnter_Unguarded(generating, loaded) ==
    IF ~loaded
    THEN [stage |-> "resolved", result |-> AiErrorText(PUTER_NOT_LOADED),
          generating |-> FALSE]
    ELSE [stage |-> "provider", result |-> <<>>, generating |-> TRUE]

\* (mutant) the call the guard turns away resets the guard
GenerateEnter_Releasing(generating, loaded) ==
    IF generating
    THEN [stage |-> "resolved", result |-> PLEASE_WAIT, generating |-> FALSE]
    ELSE IF ~loaded
    THEN [stage |-> "resolved", result |-> AiErrorText(PUTER_NOT_LOADED),
          generating |-> FALSE]
    ELSE [stage |-> "provider", result |-> <<>>, generating |-> TRUE]

\* generateResponse from its entry to its first await or return:
\* the guard, isGenerating = true, the puter check (whose throw is caught
\* and whose finally runs at once), the call of puter.ai.chat
GenerateEnter(generating, loaded) ==
    IF generating
    THEN [stage |-> "resolved", result |-> PLEASE_WAIT, generating |-> generating]
    ELSE IF ~loaded
    THEN [stage |-> "resolved", result |-> AiErrorText(PUTER_NOT_LOADED),
          generating |-> FALSE]
    ELSE [stage |-> "provider", result |-> <<>>, generating |-> TRUE]

\* generateResponse after puter.ai.chat resolved: return responseText.trim(),
\* finally isGenerating = false
GenerateReturn(response) ==
    [stage |-> "resolved", result |-> Trim(ResponseText(response)),
     generating |-> FALSE]

\* (mutant) no finally block
GenerateCatch_NoFinally(errorMessage) ==
    [stage |-> "resolved", result |-> AiErrorText(errorMessage),
     generating |-> TRUE]

\* generateResponse after puter.ai.chat rejected: catch, finally
GenerateCatch(errorMessage) ==
    [stage |-> "resolved", result |-> AiErrorText(errorMessage),
     generating |-> FALSE]

----------------------------------------------------------------------------
(* hooks/useChat: the handlers *)

UserMessage(text, image) == [role |-> "user", content |-> text, image |-> image]

AiMessage(text) == [role |-> "ai", content |-> text, image |-> NoImage]

Ids(list) == {list[i].id : i \in 1..Len(list)}

\* the ids the sidebar offers: the first two sessions and the last one
OfferedIds == {sessions[i].id : i \in {1, 2, Len(sessions)} \cap (1..Len(sessions))}

\* the provider calls that are in flight
InFlight == {k \in DOMAIN sends : sends[k].stage = "provider"}

\* no render and no continuation of a settled await is due
Idle ==
    /\ mounted = "yes"
    /\ queue = <<>>
    /\ \A k \in DOMAIN sends : sends[k].stage \in {"provider", "stub"}

\* currentSession ? currentSession.messages : []
CurrentHistory(list, id) ==
    IF \E i \in 1..Len(list) : list[i].id = id
    THEN list[CHOOSE i \in 1..Len(list) : list[i].id = id].messages
    ELSE <<>>

\* (mutant) the whole history
HistoryWindow_Whole(currentHistory) == currentHistory

\* currentHistory.slice(-10)
HistoryWindow(currentHistory) == SliceFrom(currentHistory, 0 - HISTORY_WINDOW)

USER_LABEL == <<"U","s","e","r",":"," ">>

AI_LABEL == <<"A","I",":"," ">>

IMAGE_UPLOADED ==
    <<"[","I","m","a","g","e"," ","u","p","l","o","a","d","e","d","]">>

\* historyWindow.map(m => `${role}: ${m.content}`).join('\n')
RECURSIVE PromptContext(_)
PromptContext(window) ==
    IF window = <<>> THEN <<>>
    ELSE (IF Head(window).role = "user" THEN USER_LABEL ELSE AI_LABEL)
         \o Head(window).content
         \o (IF Len(window) > 1 THEN <<"\n">> ELSE <<>>)
         \o PromptContext(Tail(window))

\* `${promptContext}\nUser: ${text || "[Image uploaded]"}\nAI:`
FullPrompt(window, text) ==
    PromptContext(window) \o <<"\n">> \o USER_LABEL
    \o (IF text # <<>> THEN text ELSE IMAGE_UPLOADED)
    \o <<"\n","A","I",":">>

\* a handleSend call at its await: its activeSessionId, its newUserMsg, the
\* history window and the prompt it passed, and where the call it awaits
\* stands
Suspend(k, target, msg, r) ==
    LET window == HistoryWindow(CurrentHistory(sessions, target))
    IN  (k :> [target |-> target, msg |-> msg, history |-> window,
               prompt |-> FullPrompt(window, msg.content),
               stage |-> r.stage, result |-> r.result])
        @@ sends

Resume(k) == [j \in DOMAIN sends \ {k} |-> sends[j]]

HandleCreateSession ==
    /\ Idle
    /\ ops > 0
    /\ ops' = ops - 1
    /\ queue' = <<CreateUpdate(createSession(nextId)),
                  ActiveUpdate(nextId)>>
    /\ nextId' = nextId + 1
    /\ UNCHANGED <<sessions, activeSessionId, isTyping, stored, isGenerating,
                   puterLoaded, sends, nextSend>>
    /\ UNCHANGED <<mounted, titled, file, imported>>
    /\ UNCHANGED page

SetActiveSessionId(id) ==
    /\ Idle
    /\ ops > 0
    /\ ops' = ops - 1
    /\ id # activeSessionId
    /\ queue' = <<ActiveUpdate(id)>>
    /\ UNCHANGED <<sessions, activeSessionId, isTyping, stored, isGenerating,
                   puterLoaded, sends, nextId, nextSend>>
    /\ UNCHANGED <<mounted, titled, file, imported>>
    /\ UNCHANGED page

\* (mutant) clearing drops the sends that wait for their reply
HandleClearSession_Cancels ==
    /\ Idle
    /\ ops > 0
    /\ ops' = ops - 1
    /\ activeSessionId # NoId
    /\ queue' = <<ClearUpdate(activeSessionId)>>
    /\ sends' = <<>>
    /\ UNCHANGED <<sessions, activeSessionId, isTyping, stored, isGenerating,
                   puterLoaded, nextId, nextSend>>
    /\ UNCHANGED <<mounted, titled, file, imported>>
    /\ UNCHANGED page

HandleClearSession ==
    /\ Idle
    /\ ops > 0
    /\ ops' = ops - 1
    /\ activeSessionId # NoId
    /\ queue' = <<ClearUpdate(activeSessionId)>>
    /\ UNCHANGED <<sessions, activeSessionId, isTyping, stored, isGenerating,
                   puterLoaded, sends, nextId, nextSend>>
    /\ UNCHANGED <<mounted, titled, file, imported>>
    /\ UNCHANGED page

\* (mutant) the active pointer is left on the deleted session
DeleteUpdates_ActiveKept(list, active, id, fresh) ==
    IF Len(list) = 1 /\ list[1].id = id
    THEN <<ReplaceUpdate(<<createSession(fresh)>>),
           ActiveUpdate(fresh)>>
    ELSE LET Keep(s) == s.id # id
         IN  <<ReplaceUpdate(SelectSeq(list, Keep))>>

\* (mutant) the only session is removed like any other
DeleteUpdates_Emptied(list, active, id, fresh) ==
    LET Keep(s) == s.id # id
        newSessions == SelectSeq(list, Keep)
    IN  <<ReplaceUpdate(newSessions)>>
        \o (IF id = active /\ newSessions # <<>>
            THEN <<ActiveUpdate(newSessions[1].id)>>
            ELSE <<>>)

\* (mutant) the last session of the list is made active
DeleteUpdates_LastActive(list, active, id, fresh) ==
    IF Len(list) = 1 /\ list[1].id = id
    THEN <<ReplaceUpdate(<<createSession(fresh)>>),
           ActiveUpdate(fresh)>>
    ELSE LET Keep(s) == s.id # id
             newSessions == SelectSeq(list, Keep)
         IN  <<ReplaceUpdate(newSessions)>>
             \o (IF id = active
                 THEN <<ActiveUpdate(newSessions[Len(newSessions)].id)>>
                 ELSE <<>>)

\* the updates handleDeleteSession(id) queues, computed from the rendered list
DeleteUpdates(list, active, id, fresh) ==
    IF Len(list) = 1 /\ list[1].id = id
    THEN <<ReplaceUpdate(<<createSession(fresh)>>),
           ActiveUpdate(fresh)>>
    ELSE LET Keep(s) == s.id # id
             newSessions == SelectSeq(list, Keep)
         IN  <<ReplaceUpdate(newSessions)>>
             \o (IF id = active
                 THEN <<ActiveUpdate(newSessions[1].id)>>
                 ELSE <<>>)

HandleDeleteSession(id) ==
    /\ Idle
    /\ ops > 0
    /\ ops' = ops - 1
    /\ queue' = DeleteUpdates(sessions, activeSessionId, id, nextId)
    /\ nextId' = IF Len(sessions) = 1 /\ sessions[1].id = id THEN nextId + 1 ELSE nextId
    /\ UNCHANGED <<sessions, activeSessionId, isTyping, stored, isGenerating,
                   puterLoaded, sends, nextSend>>
    /\ UNCHANGED <<mounted, titled, file, imported>>
    /\ UNCHANGED page

HandleRenameSession(id, newTitle) ==
    /\ Idle
    /\ ops > 0
    /\ ops' = ops - 1
    /\ queue' = <<RenameUpdate(id, newTitle)>>
    /\ UNCHANGED <<sessions, activeSessionId, isTyping, stored, isGenerating,
                   puterLoaded, sends, nextId, nextSend>>
    /\ UNCHANGED <<mounted, titled, file, imported>>
    /\ UNCHANGED page

\* handleSend up to its await: the user message and the typing flag are
\* queued, then generateResponse runs to its first await or return
IssueSend(text, image) ==
    /\ activeSessionId # NoId
    /\ queue' = <<MessageUpdate("appendUser", activeSessionId, UserMessage(text, image)),
                  TypingUpdate(TRUE)>>
    /\ LET r == GenerateEnter(isGenerating, puterLoaded)
       IN  /\ sends' = Suspend(nextSend, activeSessionId, UserMessage(text, image), r)
           /\ isGenerating' = r.generating
    /\ nextSend' = nextSend + 1
    /\ UNCHANGED <<sessions, activeSessionId, isTyping, stored, puterLoaded, nextId>>
    /\ UNCHANGED <<mounted, titled, file, imported>>
    /\ UNCHANGED page

\* a call of handleSend
HandleSend(text, image) ==
    /\ Idle
    /\ ops > 0
    /\ ops' = ops - 1
    /\ IssueSend(text, image)

\* <ChatInput disabled={!activeSessionId || isTyping} />
Disabled == activeSessionId = NoId \/ isTyping

\* hasInput of ChatInput
HasInput(text, image) == Trim(text) # <<>> \/ image # NoImage

\* (mutant) the input submits while it is disabled
Submit_Unchecked(text, image) ==
    /\ route = "/chat"
    /\ mounted = "no" \/ Idle
    /\ ops > 0
    /\ ops' = ops - 1
    /\ IF HasInput(text, image) /\ activeSessionId # NoId
       THEN IssueSend(text, image)
       ELSE UNCHANGED <<sessions, activeSessionId, isTyping, queue, stored,
                        isGenerating, puterLoaded, sends, nextId, nextSend,
                        mounted, titled, file, imported, route, username,
                        password, isLoading, loggedIn, lastActive, formError>>

\* ChatInput.handleSubmit, from the first render of the page on (the load
\* effect runs after it): nothing when there is no input or the input is
\* disabled, onSend(text, selectedImage || undefined) otherwise
Submit(text, image) ==
    /\ route = "/chat"
    /\ mounted = "no" \/ Idle
    /\ ops > 0
    /\ ops' = ops - 1
    /\ IF HasInput(text, image) /\ ~Disabled
       THEN IssueSend(text, image)
       ELSE UNCHANGED <<sessions, activeSessionId, isTyping, queue, stored,
                        isGenerating, puterLoaded, sends, nextId, nextSend,
                        mounted, titled, file, imported, route, username,
                        password, isLoading, loggedIn, lastActive, formError>>

\* puter.ai.chat resolves: generateResponse returns the trimmed text
ProviderResolves(k, response) ==
    /\ Idle
    /\ k \in InFlight
    /\ LET r == GenerateReturn(response)
       IN  /\ sends' = [sends EXCEPT ![k].stage = r.stage, ![k].result = r.result]
           /\ isGenerating' = r.generating
    /\ UNCHANGED <<sessions, activeSessionId, isTyping, queue, stored,
                   puterLoaded, nextId, nextSend, ops>>
    /\ UNCHANGED <<mounted, titled, file, imported>>
    /\ UNCHANGED page

\* puter.ai.chat rejects: generateResponse returns the error as its text
ProviderRejects(k, errorMessage) ==
    /\ Idle
    /\ k \in InFlight
    /\ LET r == GenerateCatch(errorMessage)
       IN  /\ sends' = [sends EXCEPT ![k].stage = r.stage, ![k].result = r.result]
           /\ isGenerating' = r.generating
    /\ UNCHANGED <<sessions, activeSessionId, isTyping, queue, stored,
                   puterLoaded, nextId, nextSend, ops>>
    /\ UNCHANGED <<mounted, titled, file, imported>>
    /\ UNCHANGED page

\* (mutant) no finally block
SendContinues_NoFinally(k) ==
    /\ queue = <<>>
    /\ k \in DOMAIN sends
    /\ sends[k].stage = "resolved"
    /\ queue' = <<MessageUpdate("appendAi", sends[k].target, AiMessage(sends[k].result))>>
    /\ sends' = Resume(k)
    /\ UNCHANGED <<sessions, activeSessionId, isTyping, stored, isGenerating,
                   puterLoaded, nextId, nextSend, ops>>
    /\ UNCHANGED <<mounted, titled, file, imported>>
    /\ UNCHANGED page

\* (mutant) the reply goes to the session that is active now
SendContinues_ToActive(k) ==
    /\ queue = <<>>
    /\ k \in DOMAIN sends
    /\ sends[k].stage = "resolved"
    /\ queue' = <<MessageUpdate("appendAi", activeSessionId, AiMessage(sends[k].result)),
                  TypingUpdate(FALSE)>>
    /\ sends' = Resume(k)
    /\ UNCHANGED <<sessions, activeSessionId, isTyping, stored, isGenerating,
                   puterLoaded, nextId, nextSend, ops>>
    /\ UNCHANGED <<mounted, titled, file, imported>>
    /\ UNCHANGED page

\* handleSend after its await returned a text: the reply, then finally
SendContinues(k) ==
    /\ queue = <<>>
    /\ k \in DOMAIN sends
    /\ sends[k].stage = "resolved"
    /\ queue' = <<MessageUpdate("appendAi", sends[k].target, AiMessage(sends[k].result)),
                  TypingUpdate(FALSE)>>
    /\ sends' = Resume(k)
    /\ UNCHANGED <<sessions, activeSessionId, isTyping, stored, isGenerating,
                   puterLoaded, nextId, nextSend, ops>>
    /\ UNCHANGED <<mounted, titled, file, imported>>
    /\ UNCHANGED page

\* (mutant) no finally block
SendCatches_NoFinally(k) ==
    /\ queue = <<>>
    /\ k \in DOMAIN sends
    /\ sends[k].stage = "thrown"
    /\ queue' = <<MessageUpdate("appendError", sends[k].target, AiMessage(SEND_ERROR))>>
    /\ sends' = Resume(k)
    /\ UNCHANGED <<sessions, activeSessionId, isTyping, stored, isGenerating,
                   puterLoaded, nextId, nextSend, ops>>
    /\ UNCHANGED <<mounted, titled, file, imported>>
    /\ UNCHANGED page

\* handleSend after its await threw: the catch block, then finally
SendCatches(k) ==
    /\ queue = <<>>
    /\ k \in DOMAIN sends
    /\ sends[k].stage = "thrown"
    /\ queue' = <<MessageUpdate("appendError", sends[k].target, AiMessage(SEND_ERROR)),
                  TypingUpdate(FALSE)>>
    /\ sends' = Resume(k)
    /\ UNCHANGED <<sessions, activeSessionId, isTyping, stored, isGenerating,
                   puterLoaded, nextId, nextSend, ops>>
    /\ UNCHANGED <<mounted, titled, file, imported>>
    /\ UNCHANGED page

----------------------------------------------------------------------------
(* handleSend with a stubbed generation collaborator, which returns a text
   or throws *)

StubEnter == [stage |-> "stub", result |-> <<>>]

HandleSendStub(text, image) ==
    /\ Idle
    /\ ops > 0
    /\ ops' = ops - 1
    /\ activeSessionId # NoId
    /\ queue' = <<MessageUpdate("appendUser", activeSessionId, UserMessage(text, image)),
                  TypingUpdate(TRUE)>>
    /\ sends' = Suspend(nextSend, activeSessionId, UserMessage(text, image), StubEnter)
    /\ nextSend' = nextSend + 1
    /\ UNCHANGED <<sessions, activeSessionId, isTyping, stored, isGenerating,
                   puterLoaded, nextId>>
    /\ UNCHANGED <<mounted, titled, file, imported>>
    /\ UNCHANGED page

StubReturns(k, text) ==
    /\ Idle
    /\ k \in DOMAIN sends
    /\ sends[k].stage = "stub"
    /\ sends' = [sends EXCEPT ![k].stage = "resolved", ![k].result = text]
    /\ UNCHANGED <<sessions, activeSessionId, isTyping, queue, stored, isGenerating,
                   puterLoaded, nextId, nextSend, ops>>
    /\ UNCHANGED <<mounted, titled, file, imported>>
    /\ UNCHANGED page

StubThrows(k) ==
    /\ Idle
    /\ k \in DOMAIN sends
    /\ sends[k].stage = "stub"
    /\ sends' = [sends EXCEPT ![k].stage = "thrown"]
    /\ UNCHANGED <<sessions, activeSessionId, isTyping, queue, stored, isGenerating,
                   puterLoaded, nextId, nextSend, ops>>
    /\ UNCHANGED <<mounted, titled, file, imported>>
    /\ UNCHANGED page

----------------------------------------------------------------------------
(* hooks/useChat: the effects of the first render *)

\* (mutant) the last session of the loaded list is made active
LoadEffect_LastActive(item, fresh) ==
    LET loaded == loadSessions(item)
    IN  IF loaded.isNull
        THEN [raised |-> TRUE, created |-> FALSE, updates |-> <<>>]
        ELSE IF Len(loaded.list) > 0
        THEN [raised |-> FALSE, created |-> FALSE,
              updates |-> <<ReplaceUpdate(loaded.list),
                            ActiveUpdate(loaded.list[Len(loaded.list)].id)>>]
        ELSE [raised |-> FALSE, created |-> TRUE,
              updates |-> <<ReplaceUpdate(loaded.list),
                            ReplaceUpdate(<<createSession(fresh)>>),
                            ActiveUpdate(fresh)>>]

\* the load effect: what it queues, whether it raises (loaded.length of null),
\* and whether it called createSession
LoadEffect(item, fresh) ==
    LET loaded == loadSessions(item)
    IN  IF loaded.isNull
        THEN [raised |-> TRUE, created |-> FALSE, updates |-> <<>>]
        ELSE IF Len(loaded.list) > 0
        THEN [raised |-> FALSE, created |-> FALSE,
              updates |-> <<ReplaceUpdate(loaded.list),
                            ActiveUpdate(loaded.list[1].id)>>]
        ELSE [raised |-> FALSE, created |-> TRUE,
              updates |-> <<ReplaceUpdate(loaded.list),
                            ReplaceUpdate(<<createSession(fresh)>>),
                            ActiveUpdate(fresh)>>]

\* the effects after the first render, which shows no session: the load
\* effect and the save effect
Mount ==
    /\ route = "/chat"
    /\ mounted = "no"
    /\ LET e == LoadEffect(stored, nextId)
       IN  /\ mounted' = IF e.raised THEN "error" ELSE "yes"
           /\ queue' = e.updates
           /\ nextId' = IF e.created THEN nextId + 1 ELSE nextId
    /\ stored' = SaveEffect(stored, sessions, TRUE)
    /\ UNCHANGED <<sessions, activeSessionId, isTyping, isGenerating, puterLoaded,
                   sends, nextSend, ops, titled, file, imported>>
    /\ UNCHANGED page

\* the page is loaded again: the state of the hook and of ai/generate is
\* gone with the calls that were pending, sessionStorage is kept
Reload ==
    /\ mounted = "yes"
    /\ queue = <<>>
    /\ ops > 0
    /\ ops' = ops - 1
    /\ sessions' = <<>>
    /\ activeSessionId' = NoId
    /\ isTyping' = FALSE
    /\ isGenerating' = FALSE
    /\ sends' = <<>>
    /\ mounted' = "no"
    /\ lastActive' = activeSessionId
    /\ UNCHANGED <<queue, stored, puterLoaded, nextId, nextSend, titled, file,
                   imported, route, username, password, isLoading, loggedIn,
                   formError>>

----------------------------------------------------------------------------
(* AppRoutes, routes/Login and LoginForm *)

ALPHANUMERIC ==
    {"a","b","c","d","e","f","g","h","i","j","k","l","m","n","o","p","q","r",
     "s","t","u","v","w","x","y","z",
     "A","B","C","D","E","F","G","H","I","J","K","L","M","N","O","P","Q","R",
     "S","T","U","V","W","X","Y","Z",
     "0","1","2","3","4","5","6","7","8","9"}

MIN_USERNAME == 4

MIN_PASSWORD == 6

VALID_USERNAME == <<"u","s","e","r">>

VALID_PASSWORD == <<"u","s","e","r","1","2","3">>

INVALID_CREDENTIALS == "Invalid credentials"

\* validate().isValid
IsValid(u, p) ==
    /\ u # <<>>
    /\ Len(u) >= MIN_USERNAME
    /\ \A i \in 1..Len(u) : u[i] \in ALPHANUMERIC
    /\ p # <<>>
    /\ Len(p) >= MIN_PASSWORD

\* what <Routes> renders for a path: Login for "/", Chat for "/chat", and
\* <Navigate to="/" replace /> for every other path
RouteFor(path) == IF path = "/chat" THEN "/chat" ELSE "/"

\* the state a page has when its components are first rendered: the state of
\* useChat, of ai/generate and of the login page is new, the calls that were
\* pending are gone, sessionStorage is kept
FreshPage ==
    /\ sessions' = <<>>
    /\ activeSessionId' = NoId
    /\ isTyping' = FALSE
    /\ queue' = <<>>
    /\ isGenerating' = FALSE
    /\ sends' = <<>>
    /\ mounted' = "no"
    /\ username' = <<>>
    /\ password' = <<>>
    /\ isLoading' = FALSE
    /\ formError' = ""
    /\ UNCHANGED <<stored, puterLoaded, nextId, nextSend, titled, file,
                   imported, loggedIn, lastActive>>

\* the user opens a path of the application in the address bar
OpenUrl(path) ==
    /\ ops > 0
    /\ ops' = ops - 1
    /\ route' = RouteFor(path)
    /\ FreshPage

\* the onChange of the username field
SetUsername(u) ==
    /\ route = "/"
    /\ ~isLoading
    /\ username' = u
    /\ UNCHANGED <<sessions, activeSessionId, isTyping, queue, stored,
                   isGenerating, puterLoaded, sends, nextId, nextSend, ops,
                   mounted, titled, file, imported, route, password, isLoading,
                   loggedIn, lastActive, formError>>

\* the onChange of the password field
SetPassword(p) ==
    /\ route = "/"
    /\ ~isLoading
    /\ password' = p
    /\ UNCHANGED <<sessions, activeSessionId, isTyping, queue, stored,
                   isGenerating, puterLoaded, sends, nextId, nextSend, ops,
                   mounted, titled, file, imported, route, username, isLoading,
                   loggedIn, lastActive, formError>>

\* LoginForm.handleSubmit, with handleLoginSuccess of the Login page as its
\* onSuccess: setIsLoading(true) shows the loader in place of the form and
\* the timer is started
LoginSubmit ==
    /\ route = "/"
    /\ ~isLoading
    /\ ops > 0
    /\ ops' = ops - 1
    /\ IF ~IsValid(username, password)
       THEN UNCHANGED <<username, password, isLoading, loggedIn, formError>>
       ELSE IF username = VALID_USERNAME /\ password = VALID_PASSWORD
       THEN /\ isLoading' = TRUE
            /\ loggedIn' = TRUE
            /\ username' = <<>>
            /\ password' = <<>>
            /\ formError' = ""
       ELSE /\ formError' = INVALID_CREDENTIALS
            /\ UNCHANGED <<username, password, isLoading, loggedIn>>
    /\ UNCHANGED <<sessions, activeSessionId, isTyping, queue, stored,
                   isGenerating, puterLoaded, sends, nextId, nextSend,
                   mounted, titled, file, imported, route, lastActive>>

\* the timer of handleLoginSuccess: navigate('/chat', { replace: true })
LoginTimer ==
    /\ route = "/"
    /\ isLoading
    /\ route' = "/chat"
    /\ isLoading' = FALSE
    /\ UNCHANGED <<sessions, activeSessionId, isTyping, queue, stored,
                   isGenerating, puterLoaded, sends, nextId, nextSend, ops,
                   mounted, titled, file, imported, username, password,
                   loggedIn, lastActive, formError>>

\* UserMenu.handleLogout, called while no reply is awaited: navigate('/')
\* unmounts the chat page
HandleLogout ==
    /\ route = "/chat"
    /\ sends = <<>>
    /\ ops > 0
    /\ ops' = ops - 1
    /\ route' = "/"
    /\ sessions' = <<>>
    /\ activeSessionId' = NoId
    /\ isTyping' = FALSE
    /\ queue' = <<>>
    /\ mounted' = "no"
    /\ UNCHANGED <<stored, sends, isGenerating, puterLoaded, nextId, nextSend, titled,
                   file, imported, username, password, isLoading, loggedIn,
                   lastActive, formError>>

----------------------------------------------------------------------------
(* routes/Chat: export and import *)

\* handleExportSession(session) for the session the sidebar found by its id
HandleExportSession(id) ==
    /\ Idle
    /\ ops > 0
    /\ ops' = ops - 1
    /\ \E i \in 1..Len(sessions) :
          /\ sessions[i].id = id
          /\ file' = exportSessionToMarkdown(sessions[i])
    /\ UNCHANGED <<sessions, activeSessionId, isTyping, queue, stored, isGenerating,
                   puterLoaded, sends, nextId, nextSend, mounted, titled, imported>>
    /\ UNCHANGED page

\* (mutant) the parsed session is added to the list
HandleImportSession_Adds(text) ==
    /\ Idle
    /\ ops > 0
    /\ ops' = ops - 1
    /\ LET r == parseMarkdownToSession(text, nextId)
       IN  /\ imported' = [text |-> text, result |-> r]
           /\ nextId' = IF r.ok THEN nextId + 1 ELSE nextId
           /\ queue' = IF r.ok
                       THEN <<CreateUpdate([id |-> r.id, title |-> r.title,
                                            messages |-> r.messages,
                                            createdAt |-> r.id])>>
                       ELSE queue
    /\ UNCHANGED <<sessions, activeSessionId, isTyping, stored, isGenerating,
                   puterLoaded, sends, nextSend, mounted, titled, file>>
    /\ UNCHANGED page

\* handleImportSession(file): the text is parsed and the outcome is alerted
HandleImportSession(text) ==
    /\ Idle
    /\ ops > 0
    /\ ops' = ops - 1
    /\ LET r == parseMarkdownToSession(text, nextId)
       IN  /\ imported' = [text |-> text, result |-> r]
           /\ nextId' = IF r.ok THEN nextId + 1 ELSE nextId
    /\ UNCHANGED <<sessions, activeSessionId, isTyping, queue, stored, isGenerating,
                   puterLoaded, sends, nextSend, mounted, titled, file>>
    /\ UNCHANGED page

----------------------------------------------------------------------------
(* the inputs *)

SendInputs == {<<(<<"h","i">>), NoImage>>, <<(<<>>), "data:img">>}

RenameTitles == {<<"T">>}

Responses == {[shape |-> "string", text |-> <<" ","o","k"," ">>],
              [shape |-> "other", text |-> <<>>]}

ErrorMessages == {<<"n","e","t">>}

StubTexts == {<<"o","k">>}

\* a stored list of n sessions, the first holding p messages; the sessions
\* were created before this page load, the first one last
Digit(d) == <<"0","1","2","3","4","5","6","7","8","9">>[d + 1]

Digits(k) == <<Digit(k \div 10), Digit(k % 10)>>

StoredList(n, p) ==
    [i \in 1..n |->
        [id |-> 100 + i,
         title |-> IF i = 1 /\ p > 0 THEN <<"0","1">> ELSE NEW_CHAT,
         messages |-> IF i = 1
                      THEN [m \in 1..p |->
                              IF m % 2 = 1 THEN UserMessage(Digits(m), NoImage)
                              ELSE AiMessage(Digits(m))]
                      ELSE <<>>,
         createdAt |-> 0 - i]]

StoredItems ==
    {NoItem, Corrupt, Item(StoredList(3, 1)),
     Item(StoredList(MAX_CHATS, MAX_MESSAGES - 1))}

\* a text of n characters
Text(n) == [i \in 1..n |-> Digit(i % 10)]

\* what the title of a session is derived from: a short text, a text of
\* exactly 30 characters, a longer one, an image without text
TitleSendInputs ==
    {<<(<<"h","i">>), NoImage>>, <<Text(TITLE_MAX), NoImage>>,
     <<Text(TITLE_MAX + 1), NoImage>>, <<(<<>>), "data:img">>}

\* what the rename prompt returns
TitleInputs == {<<"T">>, NEW_CHAT}

TitleResponses == {[shape |-> "string", text |-> <<"o","k">>]}

\* sessionStorage items: absent, unparseable, 'null', a saved list
LoadItems == {NoItem, Corrupt, JsonNull, Item(StoredList(3, 1))}

\* the messages of the sessions that are exported
PortMessages ==
    {UserMessage(<<"a">>, NoImage), UserMessage(<<" ","a">>, NoImage),
     UserMessage(<<"a","\n","b">>, NoImage), UserMessage(AI_MARK \o <<"c">>, NoImage),
     AiMessage(<<"b">>), AiMessage(<<>>)}

PortTitles == {<<"T">>, <<" ","T">>, NEW_CHAT}

MaxPortMessages == 2

PortSessions ==
    {[id |-> 101, title |-> t, messages |-> m, createdAt |-> 101] :
        t \in PortTitles,
        m \in UNION {[1..k -> PortMessages] : k \in 0..MaxPortMessages}}

\* files the user picks: two titles, no title, no message, text around a message
ImportTexts ==
    {H1_MARK \o <<"A","\n">> \o H1_MARK \o <<"B","\n">> \o USER_MARK \o <<" ","x">>,
     USER_MARK \o <<" ","x","\n">> \o AI_MARK \o <<"y">>,
     H1_MARK \o <<" ","A"," ","\n","h","i">>,
     <<"j","\n"," ">> \o USER_MARK \o <<"x","\n">> \o AI_MARK \o <<" ","y"," ","\n","?">>}

----------------------------------------------------------------------------
(* the hook after its mount effect and the render that follows it *)

\* the chat page is shown after a login
OnChat ==
    /\ route = "/chat"
    /\ username = <<>>
    /\ password = <<>>
    /\ isLoading = FALSE
    /\ loggedIn = TRUE
    /\ lastActive = NoId
    /\ formError = ""


Mounted(item) ==
    LET loaded == loadSessions(item).list
    IN  IF Len(loaded) > 0
        THEN [sessions |-> loaded, activeSessionId |-> loaded[1].id, fresh |-> 1]
        ELSE [sessions |-> <<createSession(1)>>, activeSessionId |-> 1, fresh |-> 2]

InitFrom(items, loadedChoices, budget) ==
    \E item \in items :
        /\ sessions = Mounted(item).sessions
        /\ activeSessionId = Mounted(item).activeSessionId
        /\ nextId = Mounted(item).fresh
        /\ stored = SaveEffect(item, Mounted(item).sessions, TRUE)
        /\ isTyping = FALSE
        /\ queue = <<>>
        /\ isGenerating = FALSE
        /\ puterLoaded \in loadedChoices
        /\ sends = <<>>
        /\ nextSend = 1
        /\ ops = budget
        /\ mounted = "yes"
        /\ titled = <<>>
        /\ file = <<>>
        /\ imported = NoImport
        /\ OnChat

Init == InitFrom(StoredItems, BOOLEAN, MaxOps)

Next ==
    \/ HandleCreateSession
    \/ \E id \in OfferedIds : SetActiveSessionId(id)
    \/ HandleClearSession
    \/ \E id \in OfferedIds : HandleDeleteSession(id)
    \/ \E id \in OfferedIds, t \in RenameTitles : HandleRenameSession(id, t)
    \/ \E in \in SendInputs : HandleSend(in[1], in[2])
    \/ \E k \in DOMAIN sends, response \in Responses : ProviderResolves(k, response)
    \/ \E k \in DOMAIN sends, e \in ErrorMessages : ProviderRejects(k, e)
    \/ \E k \in DOMAIN sends : SendContinues(k)
    \/ Render

Spec == Init /\ [][Next]_vars

\* the provider call in flight settles
ProviderSettles ==
    \/ \E k \in DOMAIN sends, response \in Responses : ProviderResolves(k, response)
    \/ \E k \in DOMAIN sends, e \in ErrorMessages : ProviderRejects(k, e)

\* React renders what is queued, a settled await is continued, and the
\* provider call completes
LiveSpec ==
    /\ InitFrom({NoItem, Item(StoredList(3, 1))}, BOOLEAN, MaxOps)
    /\ [][Next]_vars
    /\ WF_vars(Render)
    /\ WF_vars(\E k \in DOMAIN sends : SendContinues(k))
    /\ WF_vars(ProviderSettles)

InitStub == InitFrom(StoredItems, {TRUE}, MaxOps)

NextStub ==
    \/ HandleCreateSession
    \/ \E id \in OfferedIds : SetActiveSessionId(id)
    \/ HandleClearSession
    \/ \E id \in OfferedIds : HandleDeleteSession(id)
    \/ \E id \in OfferedIds, t \in RenameTitles : HandleRenameSession(id, t)
    \/ \E in \in SendInputs : HandleSendStub(in[1], in[2])
    \/ \E k \in DOMAIN sends, text \in StubTexts : StubReturns(k, text)
    \/ \E k \in DOMAIN sends : StubThrows(k)
    \/ \E k \in DOMAIN sends : SendContinues(k)
    \/ \E k \in DOMAIN sends : SendCatches(k)
    \/ Render

SpecStub == InitStub /\ [][NextStub]_vars

\* send, clear and rename on the one session of a fresh store
InitTitle == InitFrom({NoItem}, {TRUE}, MaxTitleOps)

NextTitle ==
    \/ HandleClearSession
    \/ \E id \in OfferedIds, t \in TitleInputs : HandleRenameSession(id, t)
    \/ \E in \in TitleSendInputs : HandleSend(in[1], in[2])
    \/ \E k \in DOMAIN sends, response \in TitleResponses : ProviderResolves(k, response)
    \/ \E k \in DOMAIN sends : SendContinues(k)
    \/ Render

TitleSpec == InitTitle /\ [][NextTitle]_vars

\* the hook from its first render on
InitLoad ==
    /\ sessions = <<>>
    /\ activeSessionId = NoId
    /\ isTyping = FALSE
    /\ queue = <<>>
    /\ stored \in LoadItems
    /\ isGenerating = FALSE
    /\ puterLoaded = TRUE
    /\ sends = <<>>
    /\ nextId = 1
    /\ nextSend = 1
    /\ ops = MaxOps
    /\ mounted = "no"
    /\ titled = <<>>
    /\ file = <<>>
    /\ imported = NoImport
    /\ OnChat

NextLoad ==
    \/ Mount
    \/ HandleCreateSession
    \/ HandleClearSession
    \/ \E id \in OfferedIds : HandleDeleteSession(id)
    \/ \E in \in SendInputs : HandleSend(in[1], in[2])
    \/ \E k \in DOMAIN sends, response \in Responses : ProviderResolves(k, response)
    \/ \E k \in DOMAIN sends : SendContinues(k)
    \/ Render

LoadSpec == InitLoad /\ [][NextLoad]_vars

\* export and import of a stored session
InitPort == InitFrom({Item(<<s>>) : s \in PortSessions}, {TRUE}, MaxOps)

NextPort ==
    \/ \E id \in OfferedIds : HandleExportSession(id)
    \/ \E text \in ImportTexts \cup {file} : HandleImportSession(text)

PortSpec == InitPort /\ [][NextPort]_vars

\* what the user submits in the chat input: a text, a blank text, an image
\* without text, nothing
SubmitInputs ==
    {<<(<<"h","i">>), NoImage>>, <<(<<" ">>), NoImage>>, <<(<<>>), "data:img">>,
     <<(<<>>), NoImage>>}

\* the hook from its first render on, with sends that come from the chat
\* input only
NextInput ==
    \/ Mount
    \/ \E in \in SubmitInputs : Submit(in[1], in[2])
    \/ \E id \in OfferedIds : SetActiveSessionId(id)
    \/ HandleCreateSession
    \/ \E k \in DOMAIN sends, response \in TitleResponses : ProviderResolves(k, response)
    \/ \E k \in DOMAIN sends, e \in ErrorMessages : ProviderRejects(k, e)
    \/ \E k \in DOMAIN sends : SendContinues(k)
    \/ Render

InputSpec == InitLoad /\ [][NextInput]_vars

\* the hook with reloads of the page
InitReload == InitFrom({NoItem, Item(StoredList(3, 1))}, {TRUE}, MaxOps)

NextReload ==
    \/ Reload
    \/ Mount
    \/ HandleCreateSession
    \/ \E id \in OfferedIds : SetActiveSessionId(id)
    \/ \E id \in OfferedIds : HandleDeleteSession(id)
    \/ \E in \in SendInputs : HandleSend(in[1], in[2])
    \/ \E k \in DOMAIN sends, response \in TitleResponses : ProviderResolves(k, response)
    \/ \E k \in DOMAIN sends : SendContinues(k)
    \/ Render

ReloadSpec == InitReload /\ [][NextReload]_vars

\* the paths the user opens: the login page, the chat page, an unknown path
Paths == {"/", "/chat", "/settings"}

\* what the user types as username: the right one, a short one, one that is
\* not alphanumeric, a valid one that is wrong
Usernames ==
    {VALID_USERNAME, <<"b","o","b">>, <<"u","s","-","r">>,
     <<"r","o","o","t">>}

\* what the user types as password: the right one, a wrong one, a short one
Passwords ==
    {VALID_PASSWORD, <<"s","e","c","r","e","t">>, <<"a","b","c">>}

\* the application as the browser first shows it: the login page, nobody
\* logged in
InitRoute ==
    /\ sessions = <<>>
    /\ activeSessionId = NoId
    /\ isTyping = FALSE
    /\ queue = <<>>
    /\ stored \in {NoItem, Item(StoredList(3, 1))}
    /\ isGenerating = FALSE
    /\ puterLoaded = TRUE
    /\ sends = <<>>
    /\ nextId = 1
    /\ nextSend = 1
    /\ ops = MaxOps
    /\ mounted = "no"
    /\ titled = <<>>
    /\ file = <<>>
    /\ imported = NoImport
    /\ route = "/"
    /\ username = <<>>
    /\ password = <<>>
    /\ isLoading = FALSE
    /\ loggedIn = FALSE
    /\ lastActive = NoId
    /\ formError = ""

NextRoute ==
    \/ \E path \in Paths : OpenUrl(path)
    \/ \E u \in Usernames : SetUsername(u)
    \/ \E p \in Passwords : SetPassword(p)
    \/ LoginSubmit
    \/ LoginTimer
    \/ HandleLogout
    \/ Mount
    \/ HandleCreateSession
    \/ \E id \in OfferedIds : SetActiveSessionId(id)
    \/ Render

RouteSpec == InitRoute /\ [][NextRoute]_vars

----------------------------------------------------------------------------
(* Properties *)

Last(s) == s[Len(s)]

\* the handleSend call k was turned away by the guard of generateResponse
Rejected(k) ==
    /\ k \in DOMAIN sends
    /\ sends[k].stage = "resolved"
    /\ sends[k].result = PLEASE_WAIT

\* this step is a call of handleSend
SendCalled == nextSend' = nextSend + 1

\* this step is the render of the user message of the send that was rejected
RendersRejectedSend ==
    /\ queue # <<>>
    /\ queue[1].op = "appendUser"
    /\ Rejected(nextSend - 1)

\* the stored list holds the user message of send k in its target session
PersistedHas(k) ==
    /\ stored.json = "list"
    /\ \E i \in 1..Len(stored.value) :
          /\ stored.value[i].id = sends[k].target
          /\ \E j \in 1..Len(stored.value[i].messages) :
                stored.value[i].messages[j] = sends[k].msg

\* text e occurs in text s
Contains(s, e) ==
    \E a \in 1..Len(s) : a + Len(e) - 1 <= Len(s) /\ SubSeq(s, a, a + Len(e) - 1) = e

\* C1 (as stated): a send made while the first send's generation call is
\* unresolved adds no user message to the session.
C1_SecondSendAddsNoUserMessage ==
    [][RendersRejectedSend =>
         \A i \in 1..Len(sessions) :
            sessions[i].id = queue[1].id =>
               sessions'[i].messages = sessions[i].messages]_vars

\* C1 (amended): a send made while the first send's generation call is
\* unresolved gets the "please wait" text at once, with no call of the
\* provider, and its user message is appended to the session all the same.
C1_SecondSendWaitsAndAppends ==
    [][/\ (SendCalled /\ isGenerating) =>
             /\ sends'[nextSend].stage = "resolved"
             /\ sends'[nextSend].result = PLEASE_WAIT
             /\ InFlight' = InFlight
       /\ RendersRejectedSend =>
             \A i \in 1..Len(sessions) :
                sessions[i].id = queue[1].id =>
                   /\ sessions'[i].messages # sessions[i].messages
                   /\ Last(sessions'[i].messages) = sends[nextSend - 1].msg]_vars

C1_Witness ==
    /\ queue = <<>>
    /\ InFlight # {}
    /\ \E k \in DOMAIN sends :
          /\ Rejected(k)
          /\ \E i \in 1..Len(sessions) :
                /\ sessions[i].id = sends[k].target
                /\ Len(sessions[i].messages) >= 2
                /\ Last(sessions[i].messages) = sends[k].msg

\* C2: at most one call of the provider is in flight; a call made while
\* isGenerating is true returns the "please wait" text, reaches the provider
\* neither then nor later, and leaves the call in flight as it was.
C2_OneCallInFlight ==
    [][/\ Cardinality(InFlight') <= 1
       /\ InFlight' \ InFlight \subseteq {nextSend}
       /\ (SendCalled /\ isGenerating) =>
             /\ sends'[nextSend].stage = "resolved"
             /\ sends'[nextSend].result = PLEASE_WAIT
             /\ isGenerating'
             /\ InFlight' = InFlight
             /\ \A k \in InFlight : sends'[k] = sends[k]]_vars

C2_Witness ==
    /\ Cardinality(InFlight) = 1
    /\ isGenerating
    /\ \E k \in DOMAIN sends : Rejected(k)

\* C3 (as stated): in every state where a request is in flight, the stored
\* list already holds the user message of that send.
C3_PersistedBeforeRequest ==
    \A k \in InFlight : PersistedHas(k)

\* C3 (amended): the user message is queued before the request is issued and
\* the render that follows the call of handleSend, which runs before any
\* other handler and before the reply, appends it and writes the list to
\* storage: after that render the stored target session ends with it.
C3_PersistedByNextRender ==
    [][(queue # <<>> /\ queue[1].op = "appendUser") =>
          /\ nextSend - 1 \in DOMAIN sends
          /\ sends[nextSend - 1].msg = queue[1].msg[1]
          /\ stored'.json = "list"
          /\ stored'.value = sessions'
          /\ \E i \in 1..Len(stored'.value) :
                /\ stored'.value[i].id = queue[1].id
                /\ Last(stored'.value[i].messages) = queue[1].msg[1]]_vars

C3_Witness ==
    /\ queue = <<>>
    /\ InFlight # {}
    /\ \A k \in InFlight : PersistedHas(k)

C5_CreatedFirstAndActive ==
    [][/\ Len(sessions') <= MAX_CHATS
       /\ (queue # <<>> /\ queue[1].op = "create") =>
             /\ sessions'[1] = createSession(nextId - 1)
             /\ activeSessionId' = nextId - 1]_vars

C5_Witness ==
    /\ queue = <<>>
    /\ Len(sessions) = MAX_CHATS
    /\ nextId = 3
    /\ sessions[1].id = 2
    /\ sessions[2].id = 1
    /\ activeSessionId = 2

\* C6: the session list is never empty and activeSessionId is the id of
\* exactly one session of the list.
C6_OneActiveSession ==
    /\ Len(sessions) >= 1
    /\ Cardinality({i \in 1..Len(sessions) : sessions[i].id = activeSessionId}) = 1

C6_Witness ==
    /\ queue = <<>>
    /\ Len(sessions) = 1
    /\ sessions[1].id = 2
    /\ activeSessionId = 2
    /\ nextId = 3

\* C7: when the generation collaborator throws, handleSend's catch appends
\* the fixed error text as one assistant message to the target session,
\* changes no other session, and the typing flag is false afterwards.
C7_ThrowGivesFixedError ==
    [][/\ (\E k \in DOMAIN sends : sends[k].stage = "thrown") =>
             /\ Len(queue') = 2
             /\ queue'[1].op = "appendError"
             /\ queue'[2] = TypingUpdate(FALSE)
       /\ (queue # <<>> /\ queue[1].op = "appendError") =>
             /\ ~isTyping'
             /\ Len(sessions') = Len(sessions)
             /\ \A i \in 1..Len(sessions) :
                   IF sessions[i].id = queue[1].id
                   THEN sessions'[i].messages =
                           Append(sessions[i].messages, AiMessage(SEND_ERROR))
                   ELSE sessions'[i] = sessions[i]]_vars

C7_Witness ==
    /\ queue = <<>>
    /\ sends = <<>>
    /\ ~isTyping
    /\ \E i \in 1..Len(sessions) :
          /\ Len(sessions[i].messages) >= 2
          /\ Last(sessions[i].messages) = AiMessage(SEND_ERROR)
          /\ sessions[i].messages[Len(sessions[i].messages) - 1].role = "user"

\* C8 (as stated): the text of a provider failure never appears in the
\* message list.
C8_NoRawErrorText ==
    \A i \in 1..Len(sessions) :
       \A j \in 1..Len(sessions[i].messages) :
          \A e \in ErrorMessages \cup {PUTER_NOT_LOADED} :
             ~Contains(sessions[i].messages[j].content, e)

\* C9: whenever isGenerating is true it becomes false again, the provider
\* call completing or failing.
C9_GuardReleased == isGenerating ~> ~isGenerating

C9_Witness ==
    /\ InFlight # {}
    /\ \E i \in 1..Len(sessions) :
          \E j \in 1..Len(sessions[i].messages) :
             sessions[i].messages[j].content = AiErrorText(<<"n","e","t">>)

\* C10: the typing flag, once set by a send, is cleared again, and it is
\* false whenever no send is pending and nothing is left to render.
C10_TypingCleared ==
    /\ isTyping ~> ~isTyping
    /\ [](sends = <<>> /\ queue = <<>> => ~isTyping)

C10_Witness ==
    /\ sends = <<>>
    /\ queue = <<>>
    /\ ~isTyping
    /\ nextSend = 3

\* the ids in titled are all different
RECURSIVE NoRepeat(_)
NoRepeat(ids) ==
    ids = <<>> \/ (~Contains(Tail(ids), <<Head(ids)>>) /\ NoRepeat(Tail(ids)))

\* C11 (as stated): over send, clear and rename on one session, a send
\* changes the session's title at most once, and only when the session has
\* no message and its title is "New Chat".
C11_TitleDerivedOnce ==
    /\ NoRepeat(titled)
    /\ SendRetitles =>
          \E i \in 1..Len(sessions) :
             /\ sessions[i].id = queue[1].id
             /\ Len(sessions[i].messages) = 0
             /\ sessions[i].title = NEW_CHAT

\* C12: the send to a session without messages titled "New Chat" makes the
\* title the first 30 characters of the text and "..." when the text is
\* longer than 30, the text itself when it has 1 to 30 characters, and a
\* fallback label that is not empty when the text is empty.
C12_TitleFromFirstSend ==
    [][(queue # <<>> /\ queue[1].op = "appendUser") =>
          \A i \in 1..Len(sessions) :
             (/\ sessions[i].id = queue[1].id
              /\ Len(sessions[i].messages) = 0
              /\ sessions[i].title = NEW_CHAT) =>
                LET text == queue[1].msg[1].content
                IN  /\ Len(text) > TITLE_MAX =>
                          sessions'[i].title = SubSeq(text, 1, TITLE_MAX) \o ELLIPSIS
                    /\ Len(text) \in 1..TITLE_MAX => sessions'[i].title = text
                    /\ Len(text) = 0 =>
                          /\ sessions'[i].title # <<>>
                          /\ sessions'[i].title = IMAGE_ANALYSIS]_vars

C12_Witness ==
    /\ queue = <<>>
    /\ Len(sessions[1].messages) >= 1
    /\ sessions[1].messages[1].content = Text(TITLE_MAX + 1)
    /\ sessions[1].title = SubSeq(Text(TITLE_MAX + 1), 1, TITLE_MAX) \o ELLIPSIS
    /\ Len(sessions[1].title) = TITLE_MAX + 3

\* C13: deleting the only session leaves exactly one session, with another
\* id, the title "New Chat" and no messages, and that session is active.
C13_DeleteOnlySession ==
    [][(queue # <<>> /\ queue[1].op = "replace" /\ Len(sessions) = 1) =>
          /\ Len(sessions') = 1
          /\ sessions'[1].id # sessions[1].id
          /\ sessions'[1].title = NEW_CHAT
          /\ sessions'[1].messages = <<>>
          /\ activeSessionId' = sessions'[1].id]_vars

C13_Witness ==
    /\ queue = <<>>
    /\ ops = MaxOps - 1
    /\ sessions = <<createSession(2)>>
    /\ activeSessionId = 2
    /\ stored = Item(<<createSession(2)>>)

RoundTripInputs(S) ==
    \A j \in 1..Len(S.messages) :
       /\ ~Contains(S.messages[j].content, <<"\n">>)
       /\ ~StartsWith(S.messages[j].content, USER_MARK)
       /\ ~StartsWith(S.messages[j].content, AI_MARK)

\* a session with a message, whose title and contents are single lines
\* without white space at their ends
TrimmedInputs(S) ==
    /\ Len(S.messages) >= 1
    /\ ~Contains(S.title, <<"\n">>)
    /\ Trim(S.title) = S.title
    /\ \A j \in 1..Len(S.messages) : Trim(S.messages[j].content) = S.messages[j].content

\* the parse result is a session with the title, roles and contents of S
SameChat(r, S) ==
    /\ r.ok
    /\ r.title = S.title
    /\ Len(r.messages) = Len(S.messages)
    /\ \A j \in 1..Len(S.messages) :
          /\ r.messages[j].role = S.messages[j].role
          /\ r.messages[j].content = S.messages[j].content

\* C15 (as stated): the import of the export of a session whose contents
\* hold no newline and start with no role marker returns its title and its
\* messages' roles and contents in order.
C15_RoundTrip ==
    \A i \in 1..Len(sessions) :
       (RoundTripInputs(sessions[i])
        /\ imported.text = exportSessionToMarkdown(sessions[i])) =>
          SameChat(imported.result, sessions[i])

\* C15 (amended): the same for a session that has at least one message and
\* whose title and contents are single lines without leading or trailing
\* white space.
C15_RoundTripTrimmed ==
    \A i \in 1..Len(sessions) :
       (RoundTripInputs(sessions[i]) /\ TrimmedInputs(sessions[i])
        /\ imported.text = exportSessionToMarkdown(sessions[i])) =>
          SameChat(imported.result, sessions[i])

C15_Witness ==
    /\ RoundTripInputs(sessions[1])
    /\ TrimmedInputs(sessions[1])
    /\ Len(sessions[1].messages) = 2
    /\ sessions[1].messages[1].role # sessions[1].messages[2].role
    /\ file = exportSessionToMarkdown(sessions[1])
    /\ imported.text = file
    /\ imported.result.ok

\* the trimmed text after "# " of the first line that starts with "# "
RECURSIVE FirstTitle(_)
FirstTitle(lines) ==
    IF lines = <<>> THEN IMPORTED_CHAT
    ELSE IF StartsWith(Head(lines), H1_MARK) THEN Trim(Substring(Head(lines), 2))
    ELSE FirstTitle(Tail(lines))

\* C16 (as stated): the imported title is the trimmed text of the first line
\* that starts with "# ", whatever lines follow, and "Imported Chat" when
\* there is no such line.
C16_FirstTitleLine ==
    imported.result.ok =>
       imported.result.title = FirstTitle(Split(imported.text))

\* the text has a line that starts with a role marker
HasMessageLine(text) ==
    \E l \in 1..Len(Split(text)) :
       StartsWith(Split(text)[l], USER_MARK) \/ StartsWith(Split(text)[l], AI_MARK)

\* C17: parseMarkdownToSession returns null exactly when no line of the text
\* starts with "**User**:" or "**AI**:"; other lines around such a line are
\* ignored and a session is returned.
C17_FailsIffNoMessageLine ==
    /\ imported.result.ok <=> HasMessageLine(imported.text)
    /\ imported.result.ok =>
          Len(imported.result.messages) =
             Cardinality({l \in 1..Len(Split(imported.text)) :
                            \/ StartsWith(Split(imported.text)[l], USER_MARK)
                            \/ StartsWith(Split(imported.text)[l], AI_MARK)})

C17_Witness ==
    /\ imported.result.ok
    /\ Len(imported.result.messages) = 1
    /\ Len(Split(imported.text)) = 4
    /\ imported.result.title = IMPORTED_CHAT

\* C18 (as stated): with a stored value that is missing, corrupt or
\* unparseable, loadSessions returns an empty list without raising and the
\* mount leaves one fresh session, which is active.
C18_LoadFailsSoft ==
    [][(mounted = "no" /\ stored.json # "list") =>
          /\ ~loadSessions(stored).isNull
          /\ loadSessions(stored).list = <<>>
          /\ mounted' = "yes"
          /\ LET st == ApplyAll([sessions |-> sessions',
                                 activeSessionId |-> activeSessionId',
                                 isTyping |-> isTyping'], queue')
             IN  /\ Len(st.sessions) = 1
                 /\ st.sessions[1].title = NEW_CHAT
                 /\ st.sessions[1].messages = <<>>
                 /\ st.activeSessionId = st.sessions[1].id]_vars

\* C19: every value the save effect writes is a list of at least one
\* session, the delete of the last session included.
C19_NeverSavedEmpty ==
    [][stored' # stored =>
          /\ stored'.json = "list"
          /\ Len(stored'.value) >= 1
          /\ stored'.value = sessions']_vars

C19_Witness ==
    /\ mounted = "yes"
    /\ queue = <<>>
    /\ ops = MaxOps - 1
    /\ nextId = 3
    /\ stored = Item(<<createSession(2)>>)

\* C20: clearing empties the message list of the active session and changes
\* nothing else: its title, id and createdAt, the other sessions, the order
\* of the list and the active session stay.
C20_ClearKeepsTheRest ==
    [][(queue # <<>> /\ queue[1].op = "clear") =>
          /\ queue[1].id = activeSessionId
          /\ activeSessionId' = activeSessionId
          /\ Len(sessions') = Len(sessions)
          /\ \A i \in 1..Len(sessions) :
                sessions'[i] = IF sessions[i].id = activeSessionId
                               THEN [sessions[i] EXCEPT !.messages = <<>>]
                               ELSE sessions[i]]_vars

C20_Witness ==
    /\ queue = <<>>
    /\ ops = MaxOps - 1
    /\ activeSessionId = 101
    /\ sessions = [StoredList(3, 1) EXCEPT ![1].messages = <<>>]
    /\ sessions[1].title = <<"0","1">>

\* C21: being on the /chat route implies that a login succeeded before; a
\* user who has not logged in and opens /chat ends on the login page.
C21_ChatOnlyAfterLogin == route = "/chat" => loggedIn

\* C22: createSession on a list of 10 sessions removes one session, the last
\* of the list, which is the oldest; the other 9 follow the new session
\* unchanged and in their order.
C22_OldestEvicted ==
    [][(queue # <<>> /\ queue[1].op = "create" /\ Len(sessions) = MAX_CHATS) =>
          /\ \A i \in 1..MAX_CHATS :
                sessions[MAX_CHATS].createdAt <= sessions[i].createdAt
          /\ Len(sessions') = MAX_CHATS
          /\ sessions'[1] = createSession(nextId - 1)
          /\ \A i \in 1..(MAX_CHATS - 1) : sessions'[i + 1] = sessions[i]
          /\ sessions[MAX_CHATS].id \notin Ids(sessions')]_vars

C22_Witness ==
    /\ queue = <<>>
    /\ Len(sessions) = MAX_CHATS
    /\ sessions[1] = createSession(1)
    /\ sessions[2] = StoredList(MAX_CHATS, MAX_MESSAGES - 1)[1]
    /\ sessions[MAX_CHATS] = StoredList(MAX_CHATS, MAX_MESSAGES - 1)[MAX_CHATS - 1]
    /\ stored = Item(sessions)

\* C23: the context a send passes to the generation call is the last
\* min(10, n) messages the target session held before the send, in their
\* order and never more than 10, followed once by the new user text.
C23_ContextWindow ==
    [][SendCalled =>
          \E i \in 1..Len(sessions) :
             /\ sessions[i].id = activeSessionId
             /\ LET held == sessions[i].messages
                    n == Len(held)
                    w == Min(HISTORY_WINDOW, n)
                    call == sends'[nextSend]
                    lines == Split(call.prompt)
                    text == call.msg.content
                IN  /\ call.history = [j \in 1..w |-> held[n - w + j]]
                    /\ Len(call.history) <= HISTORY_WINDOW
                    /\ Len(lines) = Max(w, 1) + 2
                    /\ \A j \in 1..w :
                          lines[j] = (IF held[n - w + j].role = "user"
                                      THEN USER_LABEL ELSE AI_LABEL)
                                     \o held[n - w + j].content
                    /\ lines[Len(lines) - 1] =
                          USER_LABEL \o (IF text # <<>> THEN text ELSE IMAGE_UPLOADED)
                    /\ lines[Len(lines)] = <<"A","I",":">>]_vars

C23_Witness ==
    \E k \in InFlight :
       /\ Len(sends[k].history) = HISTORY_WINDOW
       /\ sends[k].target = 101
       /\ sends[k].history[1] =
             StoredList(MAX_CHATS, MAX_MESSAGES - 1)[1].messages[MAX_MESSAGES - HISTORY_WINDOW]
       /\ sends[k].history[HISTORY_WINDOW] =
             StoredList(MAX_CHATS, MAX_MESSAGES - 1)[1].messages[MAX_MESSAGES - 1]

\* the render that is due appends the reply of a send
RendersReply == queue # <<>> /\ queue[1].op = "appendAi"

\* C24: the reply of a send is appended to the session that was active when
\* the send was issued, whichever session is active when the reply arrives,
\* and it changes no other session.
C24_ReplyToIssuingSession ==
    [][/\ (queue = <<>> /\ RendersReply') =>
             \E k \in DOMAIN sends \ DOMAIN sends' :
                /\ queue'[1].id = sends[k].target
                /\ queue'[1].msg[1] = AiMessage(sends[k].result)
       /\ RendersReply =>
             /\ activeSessionId' = activeSessionId
             /\ Len(sessions') = Len(sessions)
             /\ \A i \in 1..Len(sessions) :
                   IF sessions[i].id = queue[1].id
                   THEN /\ Last(sessions'[i].messages) = queue[1].msg[1]
                        /\ sessions'[i].messages # sessions[i].messages
                   ELSE sessions'[i] = sessions[i]]_vars

C24_Witness ==
    /\ RendersReply
    /\ queue[1].id # activeSessionId
    /\ queue[1].id \in Ids(sessions)
    /\ activeSessionId \in Ids(sessions)

\* C25: when the session a send was issued for is gone from the list when
\* the reply arrives, deleted or evicted by createSession, the reply is
\* appended to no session, the list stays as it was and the typing flag is
\* cleared.
C25_ReplyToMissingSession ==
    [][(RendersReply /\ queue[1].id \notin Ids(sessions)) =>
          /\ sessions' = sessions
          /\ ~isTyping'
          /\ stored'.json = "list"
          /\ stored'.value = sessions]_vars

C25_Witness ==
    /\ RendersReply
    /\ queue[1].id \notin Ids(sessions)
    /\ Len(sessions) = MAX_CHATS
    /\ sessions[1] = createSession(1)
    /\ isTyping

\* C26: clearing a session while its send waits for the reply does not
\* cancel the send: the reply is appended to the emptied list, and the
\* session then holds that one message, the assistant's.
C26_ClearKeepsSendPending ==
    [][/\ (queue = <<>> /\ queue' # <<>> /\ queue'[1].op = "clear") =>
             /\ sends' = sends
             /\ isGenerating' = isGenerating
       /\ RendersReply =>
             \A i \in 1..Len(sessions) :
                (sessions[i].id = queue[1].id /\ sessions[i].messages = <<>>) =>
                   /\ sessions'[i].messages = <<queue[1].msg[1]>>
                   /\ sessions'[i].messages[1].role = "ai"]_vars

C26_Witness ==
    /\ queue = <<>>
    /\ sends = <<>>
    /\ ~isTyping
    /\ \E i \in 1..Len(sessions) :
          /\ sessions[i].id = activeSessionId
          /\ Len(sessions[i].messages) = 1
          /\ sessions[i].messages[1].role = "ai"

\* C27: a call the guard turns away leaves isGenerating true; the guard is
\* released only when the call in flight finishes, so no later call reaches
\* the provider while that call is in flight.
C27_RejectedKeepsGuard ==
    [][/\ (SendCalled /\ isGenerating) =>
             /\ isGenerating'
             /\ sends'[nextSend].stage = "resolved"
             /\ sends'[nextSend].result = PLEASE_WAIT
       /\ (isGenerating /\ ~isGenerating') =>
             /\ InFlight # {}
             /\ InFlight' = {}
       /\ InFlight # {} => isGenerating
       /\ (SendCalled /\ InFlight # {}) => InFlight' = InFlight]_vars

C27_Witness ==
    /\ queue = <<>>
    /\ InFlight = {1}
    /\ DOMAIN sends = {1}
    /\ nextSend = 4
    /\ isGenerating

C30_ReloadActivatesFirst ==
    [][(mounted = "no" /\ mounted' = "yes" /\ stored.json = "list"
          /\ Len(stored.value) > 0) =>
          /\ ApplyAll([sessions |-> sessions',
                     activeSessionId |-> activeSessionId',
                     isTyping |-> isTyping'], queue').sessions
                = stored.value
          /\ ApplyAll([sessions |-> sessions',
                     activeSessionId |-> activeSessionId',
                     isTyping |-> isTyping'], queue').activeSessionId
                = stored.value[1].id
          /\ stored' = stored]_vars

C30_Witness ==
    /\ mounted = "yes"
    /\ queue = <<>>
    /\ lastActive # NoId
    /\ lastActive \in Ids(sessions)
    /\ lastActive # activeSessionId
    /\ activeSessionId = sessions[1].id
    /\ sessions = stored.value
    /\ Len(sessions) > 1

====
